---------------------------- MODULE Spec2Model ----------------------------
(***************************************************************************)
(* Model of the barkoder Node.js binding (src/src/barkoder_node.cpp) and   *)
(* of the per-symbology configuration records                              *)
(* (src/src/SpecificConfigs.hpp).                                          *)
(*                                                                         *)
(* Two specifications share the variables:                                 *)
(*   Spec     the binding: the global Config pointer, the registry it      *)
(*            points to, and one action per exported handler;              *)
(*   SpecCfg  one SpecificConfig object of any symbology, as constructed,  *)
(*            and its SetLengthRange method.                               *)
(***************************************************************************)
EXTENDS Integers, Sequences, FiniteSets, TLC

VARIABLES
    config,      \* the global `Config *config`: "nullptr" or "handle"
    registry,    \* the Config object `config` points to (meaningful when config = "handle")
    call,        \* the last handler invoked and the arguments it was given
    ret,         \* what that handler returned (and the JS exception it left pending)
    trace,       \* the SDK entry points that handler called, in order
    engineOut,   \* what the SDK calls of that handler produced
    everOk,      \* TRUE once some initialize call has returned SUCCESS
    cfg          \* SpecCfg: the SpecificConfig object under test

vars == <<config, registry, call, ret, trace, engineOut, everOk, cfg>>

(***************************************************************************)
(* Bounds of the model.                                                    *)
(***************************************************************************)
MaxList == 2        \* longest decoder array handed to setEnabledDecoders
MaxBuf == 2         \* longest image buffer handed to decodeImage
MaxResults == 2     \* longest result vector the engine returns
MaxLen == 3         \* largest length handed to SetLengthRange

(***************************************************************************)
(* Fixed-width integer arithmetic.  A k-byte machine integer is a sequence *)
(* of k base-256 digits, least significant first, in two's complement, so  *)
(* that 32-bit and 64-bit products are computed without leaving the range  *)
(* of the model checker's own integers.                                    *)
(***************************************************************************)

\* 256^i for i in 0..3
Pow256(i) == IF i = 0 THEN 1 ELSE IF i = 1 THEN 256 ELSE IF i = 2 THEN 65536 ELSE 16777216

\* The k-byte two's complement representation of n, -2^31 <= n < 2^31
\* (bytes beyond the fourth are the sign extension).
Bytes(n, k) ==
    [i \in 1..k |->
        IF i <= 4 THEN (n \div Pow256(i - 1)) % 256
        ELSE IF n < 0 THEN 255 ELSE 0]

\* Column i (1-based) of the schoolbook product of a and b.
RECURSIVE ColumnSum(_, _, _, _)
ColumnSum(a, b, i, j) ==
    IF j > i THEN 0 ELSE a[j] * b[i - j + 1] + ColumnSum(a, b, i, j + 1)

\* Digits i..k of the product of a and b modulo 256^k, given the carry into column i.
RECURSIVE MulFrom(_, _, _, _, _)
MulFrom(a, b, k, i, carry) ==
    IF i > k THEN << >>
    ELSE LET s == ColumnSum(a, b, i, 1) + carry
         IN  <<s % 256>> \o MulFrom(a, b, k, i + 1, s \div 256)

\* a * b modulo 256^k, for k-byte a and b.
MulBytes(a, b, k) == MulFrom(a, b, k, 1, 0)

\* Unsigned comparison a < b of two k-byte integers, from digit i downwards.
RECURSIVE LessFrom(_, _, _)
LessFrom(a, b, i) ==
    IF i = 0 THEN FALSE
    ELSE IF a[i] # b[i] THEN a[i] < b[i]
    ELSE LessFrom(a, b, i - 1)

ULess(a, b) == LessFrom(a, b, Len(a))

\* static_cast<size_t>(int): a 4-byte int sign-extended to 8 bytes.
SizeTOfInt(d) ==
    d \o (IF d[4] >= 128 THEN <<255, 255, 255, 255>> ELSE <<0, 0, 0, 0>>)

\* `width * height` on 32-bit ints, wrapped to 32 bits.
IntMulWrapped(w, h) == MulBytes(Bytes(w, 4), Bytes(h, 4), 4)

\* The exact product of two ints, as a 64-bit two's complement integer.
IntMulExact(w, h) == MulBytes(Bytes(w, 8), Bytes(h, 8), 8)

\* TRUE iff width * height does not fit a 32-bit int (signed overflow).
IntMulOverflows(w, h) == SizeTOfInt(IntMulWrapped(w, h)) # IntMulExact(w, h)


(***************************************************************************)
(* The enumerations of SpecificConfigs.hpp, as the sequences of their      *)
(* enumerators: an enumerator's ordinal is its index minus one.            *)
(***************************************************************************)
DecoderTypeNames ==
    << "Aztec", "AztecCompact", "QR", "QRMicro", "Code128", "Code93", "Code39",
       "Codabar", "Code11", "Msi", "UpcA", "UpcE", "UpcE1", "Ean13", "Ean8",
       "PDF417", "PDF417Micro", "Datamatrix", "Code25", "Interleaved25", "ITF14",
       "IATA25", "Matrix25", "Datalogic25", "COOP25", "Code32", "Telepen",
       "Dotcode", "IDDocument", "Databar14", "DatabarLimited", "DatabarExpanded",
       "PostalIMB", "Postnet", "Planet", "AustralianPost", "RoyalMail", "KIX",
       "JapanesePost", "MaxiCode" >>

\* Faulty variant of BarcodeTypeNames: the three facets of an ID document are
\* listed after the symbologies instead of after IDDocument.
BarcodeTypeNamesFacetsLast == DecoderTypeNames \o << "IDMRZ", "IDPicture", "IDSignature" >>

BarcodeTypeNames ==
    << "Aztec", "AztecCompact", "QR", "QRMicro", "Code128", "Code93", "Code39",
       "Codabar", "Code11", "Msi", "UpcA", "UpcE", "UpcE1", "Ean13", "Ean8",
       "PDF417", "PDF417Micro", "Datamatrix", "Code25", "Interleaved25", "ITF14",
       "IATA25", "Matrix25", "Datalogic25", "COOP25", "Code32", "Telepen",
       "Dotcode", "IDDocument", "IDMRZ", "IDPicture", "IDSignature", "Databar14",
       "DatabarLimited", "DatabarExpanded", "PostalIMB", "Postnet", "Planet",
       "AustralianPost", "RoyalMail", "KIX", "JapanesePost", "MaxiCode" >>

\* The values of enum class DecoderType (its ordinals).
DecoderType == 0..(Len(DecoderTypeNames) - 1)

\* The ordinal of the DecoderType enumerator called name.
DecoderOrdinal(name) == (CHOOSE i \in 1..Len(DecoderTypeNames) : DecoderTypeNames[i] = name) - 1

\* enum class DecodingSpeed { Fast = 0, Normal, Slow, Rigorous }
DecodingSpeedNames == << "Fast", "Normal", "Slow", "Rigorous" >>

DecodingSpeed == 0..(Len(DecodingSpeedNames) - 1)

DecodingSpeedNormal == (CHOOSE i \in 1..Len(DecodingSpeedNames) : DecodingSpeedNames[i] = "Normal") - 1

(***************************************************************************)
(* JavaScript values handed to the handlers (Napi::Value).  Numbers are    *)
(* the integers of the 32-bit range, on which Int32Value and FloatValue    *)
(* return the number itself.                                               *)
(***************************************************************************)
Undefined == [type |-> "undefined", num |-> 0, str |-> "", elems |-> << >>, len |-> 0]

Num(n) == [Undefined EXCEPT !.type = "number", !.num = n]

Str(s) == [Undefined EXCEPT !.type = "string", !.str = s]

Arr(es) == [Undefined EXCEPT !.type = "array", !.elems = es]

\* A Node Buffer of l bytes.
Buf(l) == [Undefined EXCEPT !.type = "buffer", !.len = l]

IsNumber(v) == v.type = "number"

IsString(v) == v.type = "string"

IsArray(v) == v.type = "array"

IsBuffer(v) == v.type = "buffer"

Int32Value(v) == v.num

FloatValue(v) == v.num

\* std::to_string(int)
RECURSIVE NatToString(_)
NatToString(n) ==
    LET d == <<"0", "1", "2", "3", "4", "5", "6", "7", "8", "9">>
    IN  IF n < 10 THEN d[n + 1] ELSE NatToString(n \div 10) \o d[(n % 10) + 1]

StdToString(n) == IF n < 0 THEN "-" \o NatToString(0 - n) ELSE NatToString(n)

\* std::to_string(float) of an integer-valued float: "%f" prints six decimals.
FloatToString(n) == StdToString(n) \o ".000000"

RECURSIVE SeqsUpTo(_, _)
SeqsUpTo(S, n) ==
    IF n = 0 THEN {<< >>}
    ELSE LET shorter == SeqsUpTo(S, n - 1)
         IN  shorter \cup {Append(s, x) : s \in shorter, x \in S}

Range(s) == {s[i] : i \in 1..Len(s)}

(***************************************************************************)
(* What a handler returns: a Napi::String (kind "string"), the serialised  *)
(* cJSON tree of decodeImage (kind "json": doc is the tree handed to       *)
(* cJSON_Print), or a Napi::Boolean; exception is the message of the       *)
(* JavaScript exception the handler left pending ("" when none).           *)
(***************************************************************************)
NoReturn ==
    [kind |-> "none", text |-> "", bool |-> FALSE, int |-> 0, doc |-> << >>, exception |-> ""]

ReturnString(text) == [NoReturn EXCEPT !.kind = "string", !.text = text]

ReturnJson(doc) == [NoReturn EXCEPT !.kind = "json", !.doc = doc]

ReturnBoolean(b) == [NoReturn EXCEPT !.kind = "boolean", !.bool = b]

ReturnInt(n) == [NoReturn EXCEPT !.kind = "int", !.int = n]

\* A C++ exception leaving the function: `throw std::invalid_argument(what)`.
Throw(what) == [NoReturn EXCEPT !.kind = "throw", !.exception = what]

\* TRUE iff text starts with prefix.
HasPrefix(text, prefix) ==
    Len(text) >= Len(prefix) /\ SubSeq(text, 1, Len(prefix)) = prefix

\* ThrowAsJavaScriptException() followed by `return Napi::String::New(env, text)`.
ThrowAndReturnString(what, text) == [ReturnString(text) EXCEPT !.exception = what]

NotInitializedText == "ERROR: SDK not initialized"

BufferTooSmallText == "ERROR: Buffer too small for specified dimensions"

(***************************************************************************)
(* The SDK behind the binding.  The Config class and the decode engine are *)
(* not part of the sources: their outcomes are nondeterministic choices.   *)
(***************************************************************************)
NoEngineOut == [kind |-> "none", message |-> "", results |-> << >>]

\* Config::InitializeWithLicenseKey: a response (Result other than Error, or
\* Result::Error) with its message, or an exception.
InitializeOutcomes ==
    { [NoEngineOut EXCEPT !.kind = "response", !.message = "License valid"],
      [NoEngineOut EXCEPT !.kind = "response-error", !.message = "License invalid"],
      [NoEngineOut EXCEPT !.kind = "throw", !.message = "license check failed"] }

\* BaseResult values the engine produces; extra lists the auxiliary pairs in
\* the order the range-for loop meets them.
ResultPool ==
    { [barcodeTypeName |-> "QR", textualData |-> "ABC", extra |-> << <<"gs1", "01">> >>],
      [barcodeTypeName |-> "Code 128", textualData |-> "XYZ", extra |-> << >>],
      [barcodeTypeName |-> "ID Document", textualData |-> "DOC",
       extra |-> << <<"results", "r">>, <<"resultsCount", "9">>, <<"textualData", "T">> >>] }

\* Barkoder::DecodeImageMemory: a vector of BaseResult, or an exception.
DecodeOutcomes ==
    { [NoEngineOut EXCEPT !.kind = "throw", !.message = "engine failure"] }
    \cup { [NoEngineOut EXCEPT !.kind = "results", !.results = r] : r \in SeqsUpTo(ResultPool, MaxResults) }

\* Barkoder::GetLibVersion
VersionOutcomes ==
    { [NoEngineOut EXCEPT !.kind = "version", !.message = "1.0.0"],
      [NoEngineOut EXCEPT !.kind = "throw", !.message = "no version"] }

\* Rect(): the default region of interest.
DefaultRect == [left |-> 0, top |-> 0, width |-> 100, height |-> 100]

\* The Config object a successful InitializeWithLicenseKey hands out: every
\* decoder disabled, the default region of interest.
FreshRegistry ==
    [enabled |-> {}, decodingSpeed |-> 0, maximumResultsCount |-> 0, roi |-> DefaultRect]


(***************************************************************************)
(* The handlers of barkoder_node.cpp.                                      *)
(***************************************************************************)

\* Faulty variant of NotInitialized: the guard is missing.
NotInitializedAbsent(c) == FALSE

\* `!config`: the guard that opens every configuration and decode handler.
NotInitialized(c) == c = "nullptr"

\* Initialize: `info.Length() < 1 || !info[0].IsString()`
InitializeArgsBad(info) == Len(info) < 1 \/ ~IsString(info[1])

\* Faulty variant of StoreConfig: the pointer is stored before the response's
\* result is looked at.
StoreConfigBeforeCheck(cur, out) == IF out.kind = "throw" THEN cur ELSE "handle"

\* Faulty variant of StoreConfig: a failed license check clears the pointer.
StoreConfigClearsOnError(cur, out) == IF out.kind = "response" THEN "handle" ELSE "nullptr"

\* Initialize: the global pointer after InitializeWithLicenseKey answered `out`:
\* a thrown exception and Result::Error both leave before `config = ...`.
StoreConfig(cur, out) == IF out.kind = "response" THEN "handle" ELSE cur

\* Faulty variant of InitializedRegistry: the results cap is left as the SDK
\* handed it out.
InitializedRegistryCapUnset ==
    [FreshRegistry EXCEPT !.decodingSpeed = DecodingSpeedNormal]

\* Initialize: the registry after `config->decodingSpeed = Normal;
\* config->maximumResultsCount = 1;` on the Config the SDK handed out.
InitializedRegistry ==
    [FreshRegistry EXCEPT !.decodingSpeed = DecodingSpeedNormal, !.maximumResultsCount = 1]

\* Initialize: the string returned once the license key was handed to the SDK.
InitializeReturn(out) ==
    IF out.kind = "throw"
    THEN ReturnString("ERROR: " \o ("Exception during initialization: " \o out.message))
    ELSE IF out.kind = "response-error"
    THEN ReturnString("ERROR: " \o out.message)
    ELSE ReturnString("SUCCESS: " \o out.message)

\* Initialize: the SDK entry points called.
InitializeTrace(out) ==
    IF out.kind = "response"
    THEN <<"Config::InitializeWithLicenseKey", "Config::SetGlobalOption", "Config::SetGlobalOption">>
    ELSE <<"Config::InitializeWithLicenseKey">>

InitializeInputs == {<< >>, <<Num(7)>>, <<Str("LICENSE-KEY")>>}

Initialize ==
    \E info \in InitializeInputs, out \in InitializeOutcomes :
        /\ call' = [op |-> "initialize", info |-> info]
        /\ IF InitializeArgsBad(info)
           THEN /\ ret' = ThrowAndReturnString("License key string expected",
                                               "ERROR: License key string expected")
                /\ trace' = << >>
                /\ engineOut' = NoEngineOut
                /\ UNCHANGED <<config, registry, everOk>>
           ELSE /\ ret' = InitializeReturn(out)
                /\ trace' = InitializeTrace(out)
                /\ engineOut' = out
                /\ config' = StoreConfig(config, out)
                /\ registry' = IF out.kind = "response" THEN InitializedRegistry ELSE registry
                /\ everOk' = (everOk \/ out.kind = "response")
        /\ UNCHANGED cfg

\* IsInitialized: `config != nullptr`
IsInitializedValue(c) == c # "nullptr"

IsInitialized ==
    /\ call' = [op |-> "isInitialized", info |-> << >>]
    /\ ret' = ReturnBoolean(IsInitializedValue(config))
    /\ trace' = << >>
    /\ engineOut' = NoEngineOut
    /\ UNCHANGED <<config, registry, everOk, cfg>>

GetVersion ==
    \E out \in VersionOutcomes :
        /\ call' = [op |-> "getVersion", info |-> << >>]
        /\ ret' = IF out.kind = "throw"
                  THEN ThrowAndReturnString(out.message, "")
                  ELSE ReturnString(out.message)
        /\ trace' = <<"Barkoder::GetLibVersion">>
        /\ engineOut' = out
        /\ UNCHANGED <<config, registry, everOk, cfg>>

\* A handler that returns a status string without touching the registry or the SDK.
Refuse(op, info, text) ==
    /\ call' = [op |-> op, info |-> info]
    /\ ret' = ReturnString(text)
    /\ trace' = << >>
    /\ engineOut' = NoEngineOut
    /\ UNCHANGED <<config, registry, everOk, cfg>>

\* SetEnabledDecoders: `info.Length() < 1 || !info[0].IsArray()`
EnabledArgsBad(info) == Len(info) < 1 \/ ~IsArray(info[1])

\* Faulty variant of CollectDecoders: the loop stops one element early.
RECURSIVE CollectDecodersShort(_)
CollectDecodersShort(elems) ==
    IF Len(elems) <= 1 THEN << >>
    ELSE (IF IsNumber(Head(elems)) THEN <<Int32Value(Head(elems))>> ELSE << >>)
         \o CollectDecodersShort(Tail(elems))

\* SetEnabledDecoders: the loop that fills `enabledDecoders` from the array:
\* an element that is a number is cast and pushed, any other is passed over.
RECURSIVE CollectDecoders(_)
CollectDecoders(elems) ==
    IF elems = << >> THEN << >>
    ELSE (IF IsNumber(Head(elems)) THEN <<Int32Value(Head(elems))>> ELSE << >>)
         \o CollectDecoders(Tail(elems))

\* Config::SetEnabledDecoders: a vector holding a value that is no DecoderType
\* is rejected (an exception, nothing applied).
ConfigRejectsDecoders(vec) == \E i \in 1..Len(vec) : vec[i] \notin DecoderType

\* Config::SetEnabledDecoders, accepted: the listed decoders are the enabled
\* ones, every other one is disabled.
ConfigSetEnabledDecoders(reg, vec) == [reg EXCEPT !.enabled = Range(vec)]

UnknownDecoderMessage == "Unknown decoder type"

DecoderElements == {Num(0), Num(2), Num(Len(DecoderTypeNames)), Str("QR")}

EnabledInputs ==
    {<< >>, <<Num(0)>>} \cup {<<Arr(l)>> : l \in SeqsUpTo(DecoderElements, MaxList)}

SetEnabledDecoders ==
    \E info \in EnabledInputs :
        IF NotInitialized(config)
        THEN Refuse("setEnabledDecoders", info, NotInitializedText)
        ELSE IF EnabledArgsBad(info)
        THEN Refuse("setEnabledDecoders", info, "ERROR: Array of decoder types expected")
        ELSE LET enabledDecoders == CollectDecoders(info[1].elems)
             IN  /\ call' = [op |-> "setEnabledDecoders", info |-> info]
                 /\ trace' = <<"Config::SetEnabledDecoders">>
                 /\ IF ConfigRejectsDecoders(enabledDecoders)
                    THEN /\ engineOut' = [NoEngineOut EXCEPT !.kind = "throw",
                                                             !.message = UnknownDecoderMessage]
                         /\ ret' = ReturnString("ERROR: " \o UnknownDecoderMessage)
                         /\ UNCHANGED registry
                    ELSE /\ engineOut' = NoEngineOut
                         /\ ret' = ReturnString(("SUCCESS: Enabled "
                                        \o StdToString(Len(enabledDecoders))) \o " decoders")
                         /\ registry' = ConfigSetEnabledDecoders(registry, enabledDecoders)
                 /\ UNCHANGED <<config, everOk, cfg>>

\* SetDecodingSpeed: `info.Length() < 1 || !info[0].IsNumber()`
SpeedArgsBad(info) == Len(info) < 1 \/ ~IsNumber(info[1])

\* SetDecodingSpeed: `config->decodingSpeed = static_cast<DecodingSpeed>(speed)`
StoreSpeed(reg, speed) == [reg EXCEPT !.decodingSpeed = speed]

\* The four enumerators, and an integer on either side of them.
SpeedInputs ==
    {<< >>, <<Str("fast")>>}
    \cup {<<Num(s)>> : s \in DecodingSpeed \cup {0 - 1, Len(DecodingSpeedNames)}}

SetDecodingSpeed ==
    \E info \in SpeedInputs :
        IF NotInitialized(config)
        THEN Refuse("setDecodingSpeed", info, NotInitializedText)
        ELSE IF SpeedArgsBad(info)
        THEN Refuse("setDecodingSpeed", info, "ERROR: Speed integer expected")
        ELSE LET speed == Int32Value(info[1])
             IN  /\ call' = [op |-> "setDecodingSpeed", info |-> info]
                 /\ trace' = << >>
                 /\ engineOut' = NoEngineOut
                 /\ registry' = StoreSpeed(registry, speed)
                 /\ ret' = ReturnString("SUCCESS: Decoding speed set to " \o StdToString(speed))
                 /\ UNCHANGED <<config, everOk, cfg>>

\* SetRegionOfInterest: fewer than four arguments, or one that is no number.
RoiArgsBad(info) == Len(info) < 4 \/ \E i \in 1..4 : ~IsNumber(info[i])

\* Config::SetRegionOfInterest: the four values are stored as they come.
ConfigSetRegionOfInterest(reg, left, top, width, height) ==
    [reg EXCEPT !.roi = [left |-> left, top |-> top, width |-> width, height |-> height]]

RoiInputs ==
    { << >>,
      <<Num(0), Num(0), Num(100)>>,
      <<Num(10), Num(20), Num(50), Str("50")>>,
      <<Num(0 - 5), Num(20), Num(150), Num(50)>> }

SetRegionOfInterest ==
    \E info \in RoiInputs :
        IF NotInitialized(config)
        THEN Refuse("setRegionOfInterest", info, NotInitializedText)
        ELSE IF RoiArgsBad(info)
        THEN Refuse("setRegionOfInterest", info,
                    "ERROR: Four numbers expected (left, top, width, height)")
        ELSE LET left == FloatValue(info[1])
                 top == FloatValue(info[2])
                 width == FloatValue(info[3])
                 height == FloatValue(info[4])
             IN  /\ call' = [op |-> "setRegionOfInterest", info |-> info]
                 /\ trace' = <<"Config::SetRegionOfInterest">>
                 /\ engineOut' = NoEngineOut
                 /\ registry' = ConfigSetRegionOfInterest(registry, left, top, width, height)
                 /\ ret' = ReturnString(((((((("SUCCESS: ROI set to (" \o FloatToString(left))
                              \o ",") \o FloatToString(top)) \o ",") \o FloatToString(width))
                              \o ",") \o FloatToString(height)) \o ")")
                 /\ UNCHANGED <<config, everOk, cfg>>


(***************************************************************************)
(* DecodeImage: the size check, the engine call and the cJSON document.    *)
(* A cJSON object is the sequence of its items in insertion order (cJSON   *)
(* appends an item without looking for its key among the earlier ones).    *)
(***************************************************************************)

\* DecodeImage: fewer than three arguments, or not (buffer, number, number).
DecodeArgsBad(info) ==
    Len(info) < 3 \/ ~IsBuffer(info[1]) \/ ~IsNumber(info[2]) \/ ~IsNumber(info[3])

\* `static_cast<size_t>(width * height)`.  The product is computed on ints:
\* when it overflows the behaviour is undefined, and a build either keeps the
\* low 32 bits (then sign-extended) or multiplies in a 64-bit register.
NeededSizes(width, height) ==
    {SizeTOfInt(IntMulWrapped(width, height))}
    \cup (IF IntMulOverflows(width, height) THEN {IntMulExact(width, height)} ELSE {})

\* `bufferLength < static_cast<size_t>(width * height)`, `needed` being the
\* right-hand side.
BufferTooSmall(bufferLength, needed) == ULess(Bytes(bufferLength, 8), needed)

NumberItem(key, n) == [key |-> key, type |-> "Number", num |-> n, str |-> "", child |-> << >>]

StringItem(key, s) == [key |-> key, type |-> "String", num |-> 0, str |-> s, child |-> << >>]

ArrayItem(key, objects) ==
    [key |-> key, type |-> "Array", num |-> 0, str |-> "", child |-> objects]

\* Faulty variant of AddExtra: the auxiliary pairs are left out.
AddExtraNothing(object, extra) == object

\* The loop `for (pair : extra) cJSON_AddStringToObject(object, pair.first, pair.second)`.
AddExtra(object, extra) ==
    object \o [i \in 1..Len(extra) |-> StringItem(extra[i][1], extra[i][2])]

\* Faulty variant of RenderNone: the two empty strings are left out.
RenderNoneCountOnly == << NumberItem("resultsCount", 0) >>

\* `resultsCount == 0`: no barcode found.
RenderNone ==
    << NumberItem("resultsCount", 0),
       StringItem("barcodeTypeName", ""),
       StringItem("textualData", "") >>

\* Faulty variant of RenderSingle: the count written is the number of fields
\* of the result (type name, text and auxiliary pairs), not of results.
RenderSingleCountsFields(result) ==
    AddExtra(<< NumberItem("resultsCount", 2 + Len(result.extra)),
                StringItem("barcodeTypeName", result.barcodeTypeName),
                StringItem("textualData", result.textualData) >>,
             result.extra)

\* `resultsCount == 1`: the single result, flat.
RenderSingle(result) ==
    AddExtra(<< NumberItem("resultsCount", 1),
                StringItem("barcodeTypeName", result.barcodeTypeName),
                StringItem("textualData", result.textualData) >>,
             result.extra)

\* One element of the "results" array.
RenderNested(result) ==
    AddExtra(<< StringItem("barcodeTypeName", result.barcodeTypeName),
                StringItem("textualData", result.textualData) >>,
             result.extra)

\* Faulty variant of RenderMultiple: the array is filled back to front.
RenderMultipleReversed(results) ==
    << NumberItem("resultsCount", Len(results)),
       ArrayItem("results",
                 [i \in 1..Len(results) |-> RenderNested(results[Len(results) - i + 1])]) >>

\* More than one result: the count and the array of the results, in order.
RenderMultiple(results) ==
    << NumberItem("resultsCount", Len(results)),
       ArrayItem("results", [i \in 1..Len(results) |-> RenderNested(results[i])]) >>

\* The three-way branch on `resultsCount`.
RenderResults(results) ==
    IF Len(results) = 0 THEN RenderNone
    ELSE IF Len(results) = 1 THEN RenderSingle(results[1])
    ELSE RenderMultiple(results)

\* Faulty variant of DecodeReturn: an engine failure is swallowed and reported
\* as the document of an image without barcodes.
DecodeReturnSwallows(out) ==
    IF out.kind = "throw"
    THEN ReturnJson(RenderNone)
    ELSE ReturnJson(RenderResults(out.results))

\* DecodeImage: what is returned once the engine answered `out`.
DecodeReturn(out) ==
    IF out.kind = "throw"
    THEN ReturnString("ERROR: " \o out.message)
    ELSE ReturnJson(RenderResults(out.results))

Dimensions == {0 - 1, 0, 1, 2, 65536}

\* NeededSizes, tabulated over the dimensions the model hands in.
NeededRows == {<<w, h, NeededSizes(w, h)>> : w \in Dimensions, h \in Dimensions}

NeededFor(width, height) ==
    (CHOOSE r \in NeededRows : r[1] = width /\ r[2] = height)[3]

DecodeInputs ==
    {<< >>, <<Buf(0), Num(1)>>, <<Str("image"), Num(1), Num(1)>>}
    \cup {<<Buf(l), Num(w), Num(h)>> : l \in 0..MaxBuf, w \in Dimensions, h \in Dimensions}

\* The calls explored: every input with the engine finding nothing, and a
\* one-pixel image with every engine outcome.
DecodeCases ==
    {<<info, out>> : info \in DecodeInputs,
                     out \in {o \in DecodeOutcomes : o.kind = "results" /\ o.results = << >>}}
    \cup {<<<<Buf(1), Num(1), Num(1)>>, out>> : out \in DecodeOutcomes}

\* DecodeImage, over the calls and engine outcomes of `cases`.
DecodeImageOn(cases) ==
    \E case \in cases :
        LET info == case[1]
            out == case[2]
        IN
        IF NotInitialized(config)
        THEN Refuse("decodeImage", info, NotInitializedText)
        ELSE IF DecodeArgsBad(info)
        THEN Refuse("decodeImage", info,
                    "ERROR: Buffer and two numbers expected (imageBuffer, width, height)")
        ELSE LET width == Int32Value(info[2])
                 height == Int32Value(info[3])
                 bufferLength == info[1].len
             IN  \E needed \in NeededFor(width, height) :
                     IF BufferTooSmall(bufferLength, needed)
                     THEN Refuse("decodeImage", info, BufferTooSmallText)
                     ELSE     /\ call' = [op |-> "decodeImage", info |-> info]
                              /\ trace' = <<"Barkoder::DecodeImageMemory">>
                              /\ engineOut' = out
                              /\ ret' = DecodeReturn(out)
                              /\ UNCHANGED <<config, registry, everOk, cfg>>

DecodeImage == DecodeImageOn(DecodeCases)

\* Barkoder::DecodeImageMemory as the registry's cap describes it: a result
\* vector is no longer than maximumResultsCount.
EngineHonoursCap(reg, out) ==
    out.kind = "results" => Len(out.results) <= reg.maximumResultsCount

\* DecodeImage with an engine that honours the cap.
DecodeImageCapped ==
    DecodeImageOn({case \in DecodeCases : EngineHonoursCap(registry, case[2])})

(***************************************************************************)
(* The binding as a state machine: the state after the module is loaded    *)
(* (Init of barkoder_node.cpp only registers the handlers) and one action  *)
(* per exported function.                                                  *)
(***************************************************************************)
NoCall == [op |-> "none", info |-> << >>]

Init ==
    /\ config = "nullptr"
    /\ registry = FreshRegistry
    /\ call = NoCall
    /\ ret = NoReturn
    /\ trace = << >>
    /\ engineOut = NoEngineOut
    /\ everOk = FALSE
    /\ cfg = << >>

Next ==
    \/ GetVersion
    \/ Initialize
    \/ IsInitialized
    \/ SetEnabledDecoders
    \/ SetDecodingSpeed
    \/ SetRegionOfInterest
    \/ DecodeImage

Spec == Init /\ [][Next]_vars

\* The binding in front of an engine that honours the registry's cap.
NextCapped ==
    \/ GetVersion
    \/ Initialize
    \/ IsInitialized
    \/ SetEnabledDecoders
    \/ SetDecodingSpeed
    \/ SetRegionOfInterest
    \/ DecodeImageCapped

SpecCapped == Init /\ [][NextCapped]_vars


(***************************************************************************)
(* The configuration records of SpecificConfigs.hpp.  A record is the      *)
(* object's fields by name; a class adds its own fields to those of        *)
(* SpecificConfig.  Enumerators are written by name.                       *)
(***************************************************************************)

\* SpecificConfig::SpecificConfig(DecoderType): disabled, no expected count,
\* both length bounds unconstrained, the decoder type as given.
SpecificConfig(decoderType) ==
    [ decoderType |-> decoderType,
      enabled |-> FALSE,
      expectedCount |-> 0,
      minimumLength |-> 0,
      maximumLength |-> 0,
      configTypeName |-> "" ]

Code11Config(decoderType) ==
    [checksumType |-> "Disabled"]
    @@ [SpecificConfig(decoderType) EXCEPT !.configTypeName = "Code 11"]

Code39Config(decoderType) ==
    [checksumType |-> "Disabled"]
    @@ [SpecificConfig(decoderType) EXCEPT !.configTypeName = "Code 39"]

TelepenConfig(decoderType) ==
    [SpecificConfig(decoderType) EXCEPT !.configTypeName = "Telepen"]

PostalIMBConfig(decoderType) ==
    [SpecificConfig(decoderType) EXCEPT !.configTypeName = "Intelligent Mail"]

PostnetConfig(decoderType) ==
    [SpecificConfig(decoderType) EXCEPT !.configTypeName = "Postnet"]

PlanetConfig(decoderType) ==
    [SpecificConfig(decoderType) EXCEPT !.configTypeName = "Planet"]

AustralianPostConfig(decoderType) ==
    [SpecificConfig(decoderType) EXCEPT !.configTypeName = "Australian Post"]

RoyalMailConfig(decoderType) ==
    [SpecificConfig(decoderType) EXCEPT !.configTypeName = "Royal Mail"]

JapanesePostConfig(decoderType) ==
    [SpecificConfig(decoderType) EXCEPT !.configTypeName = "Japanese Post"]

KIXConfig(decoderType) ==
    [SpecificConfig(decoderType) EXCEPT !.configTypeName = "PostNL KIX"]

DotcodeConfig(decoderType) ==
    [SpecificConfig(decoderType) EXCEPT !.configTypeName = "Dotcode"]

Code32Config(decoderType) ==
    [SpecificConfig(decoderType) EXCEPT !.configTypeName = "Code 32"]

MsiConfig(decoderType) ==
    [checksumType |-> "Mod10"]
    @@ [SpecificConfig(decoderType) EXCEPT !.configTypeName = "MSI", !.minimumLength = 5]

Code25Config(decoderType) ==
    [checksumType |-> "Disabled"]
    @@ [SpecificConfig(decoderType) EXCEPT !.configTypeName = "Code 25"]

IATA25Config(decoderType) ==
    [checksumType |-> "Disabled"]
    @@ [SpecificConfig(decoderType) EXCEPT !.configTypeName = "IATA 25"]

Matrix25Config(decoderType) ==
    [checksumType |-> "Disabled"]
    @@ [SpecificConfig(decoderType) EXCEPT !.configTypeName = "Matrix 25"]

Datalogic25Config(decoderType) ==
    [checksumType |-> "Disabled"]
    @@ [SpecificConfig(decoderType) EXCEPT !.configTypeName = "Datalogic 25"]

COOP25Config(decoderType) ==
    [checksumType |-> "Disabled"]
    @@ [SpecificConfig(decoderType) EXCEPT !.configTypeName = "COOP 25"]

Interleaved25Config(decoderType) ==
    [checksumType |-> "Disabled"]
    @@ [SpecificConfig(decoderType) EXCEPT !.configTypeName = "Interleaved 2 of 5"]

ITF14Config(decoderType) ==
    [SpecificConfig(decoderType) EXCEPT !.configTypeName = "ITF 14"]

AztecConfig(decoderType) ==
    [SpecificConfig(decoderType) EXCEPT !.configTypeName = "Aztec"]

AztecCompactConfig(decoderType) ==
    [SpecificConfig(decoderType) EXCEPT !.configTypeName = "Aztec Compact"]

MaxiCodeConfig(decoderType) ==
    [SpecificConfig(decoderType) EXCEPT !.configTypeName = "MaxiCode"]

DatamatrixConfig(decoderType) ==
    [dpmMode |-> 0]
    @@ [SpecificConfig(decoderType) EXCEPT !.configTypeName = "Data Matrix"]

QRConfig(decoderType) ==
    [dpmMode |-> 0, multiPartMerge |-> FALSE]
    @@ [SpecificConfig(decoderType) EXCEPT !.configTypeName = "QR"]

QRMicroConfig(decoderType) ==
    [dpmMode |-> 0]
    @@ [SpecificConfig(decoderType) EXCEPT !.configTypeName = "QR Micro"]

Code128Config(decoderType) ==
    [SpecificConfig(decoderType) EXCEPT !.configTypeName = "Code 128"]

Code93Config(decoderType) ==
    [SpecificConfig(decoderType) EXCEPT !.configTypeName = "Code 93"]

\* Faulty variant of CodabarConfig: the minimum length is not set.
CodabarConfigNoMinimum(decoderType) ==
    [SpecificConfig(decoderType) EXCEPT !.configTypeName = "Codabar"]

CodabarConfig(decoderType) ==
    [SpecificConfig(decoderType) EXCEPT !.configTypeName = "Codabar", !.minimumLength = 4]

UpcAConfig(decoderType) ==
    [SpecificConfig(decoderType) EXCEPT !.configTypeName = "Upc-A"]

UpcEConfig(decoderType) ==
    [expandToUPCA |-> FALSE]
    @@ [SpecificConfig(decoderType) EXCEPT !.configTypeName = "Upc-E"]

UpcE1Config(decoderType) ==
    [expandToUPCA |-> FALSE]
    @@ [SpecificConfig(decoderType) EXCEPT !.configTypeName = "Upc-E1"]

Ean13Config(decoderType) ==
    [SpecificConfig(decoderType) EXCEPT !.configTypeName = "Ean-13"]

Ean8Config(decoderType) ==
    [SpecificConfig(decoderType) EXCEPT !.configTypeName = "Ean-8"]

PDF417Config(decoderType) ==
    [SpecificConfig(decoderType) EXCEPT !.configTypeName = "PDF 417"]

PDF417MicroConfig(decoderType) ==
    [SpecificConfig(decoderType) EXCEPT !.configTypeName = "PDF 417 Micro"]

Databar14Config(decoderType) ==
    [SpecificConfig(decoderType) EXCEPT !.configTypeName = "Databar 14"]

DatabarLimitedConfig(decoderType) ==
    [SpecificConfig(decoderType) EXCEPT !.configTypeName = "Databar Limited"]

DatabarExpandedConfig(decoderType) ==
    [SpecificConfig(decoderType) EXCEPT !.configTypeName = "Databar Expanded"]

IDDocumentConfig(decoderType) ==
    [masterChecksumType |-> "Disabled"]
    @@ [SpecificConfig(decoderType) EXCEPT !.configTypeName = "ID Document"]

\* The record the registry keeps in the slot of DecoderType d: an object of the
\* class named after the enumerator.
ConfigOf(d) ==
    CASE d = DecoderOrdinal("Code11") -> Code11Config(d)
      [] d = DecoderOrdinal("Code39") -> Code39Config(d)
      [] d = DecoderOrdinal("Telepen") -> TelepenConfig(d)
      [] d = DecoderOrdinal("PostalIMB") -> PostalIMBConfig(d)
      [] d = DecoderOrdinal("Postnet") -> PostnetConfig(d)
      [] d = DecoderOrdinal("Planet") -> PlanetConfig(d)
      [] d = DecoderOrdinal("AustralianPost") -> AustralianPostConfig(d)
      [] d = DecoderOrdinal("RoyalMail") -> RoyalMailConfig(d)
      [] d = DecoderOrdinal("JapanesePost") -> JapanesePostConfig(d)
      [] d = DecoderOrdinal("KIX") -> KIXConfig(d)
      [] d = DecoderOrdinal("Dotcode") -> DotcodeConfig(d)
      [] d = DecoderOrdinal("Code32") -> Code32Config(d)
      [] d = DecoderOrdinal("Msi") -> MsiConfig(d)
      [] d = DecoderOrdinal("Code25") -> Code25Config(d)
      [] d = DecoderOrdinal("IATA25") -> IATA25Config(d)
      [] d = DecoderOrdinal("Matrix25") -> Matrix25Config(d)
      [] d = DecoderOrdinal("Datalogic25") -> Datalogic25Config(d)
      [] d = DecoderOrdinal("COOP25") -> COOP25Config(d)
      [] d = DecoderOrdinal("Interleaved25") -> Interleaved25Config(d)
      [] d = DecoderOrdinal("ITF14") -> ITF14Config(d)
      [] d = DecoderOrdinal("Aztec") -> AztecConfig(d)
      [] d = DecoderOrdinal("AztecCompact") -> AztecCompactConfig(d)
      [] d = DecoderOrdinal("MaxiCode") -> MaxiCodeConfig(d)
      [] d = DecoderOrdinal("Datamatrix") -> DatamatrixConfig(d)
      [] d = DecoderOrdinal("QR") -> QRConfig(d)
      [] d = DecoderOrdinal("QRMicro") -> QRMicroConfig(d)
      [] d = DecoderOrdinal("Code128") -> Code128Config(d)
      [] d = DecoderOrdinal("Code93") -> Code93Config(d)
      [] d = DecoderOrdinal("Codabar") -> CodabarConfig(d)
      [] d = DecoderOrdinal("UpcA") -> UpcAConfig(d)
      [] d = DecoderOrdinal("UpcE") -> UpcEConfig(d)
      [] d = DecoderOrdinal("UpcE1") -> UpcE1Config(d)
      [] d = DecoderOrdinal("Ean13") -> Ean13Config(d)
      [] d = DecoderOrdinal("Ean8") -> Ean8Config(d)
      [] d = DecoderOrdinal("PDF417") -> PDF417Config(d)
      [] d = DecoderOrdinal("PDF417Micro") -> PDF417MicroConfig(d)
      [] d = DecoderOrdinal("Databar14") -> Databar14Config(d)
      [] d = DecoderOrdinal("DatabarLimited") -> DatabarLimitedConfig(d)
      [] d = DecoderOrdinal("DatabarExpanded") -> DatabarExpandedConfig(d)
      [] d = DecoderOrdinal("IDDocument") -> IDDocumentConfig(d)

\* Faulty variant of SetLengthRangeResult: equal positive bounds are refused.
SetLengthRangeRefusesEqual(this, minimumLength, maximumLength) ==
    IF minimumLength >= 0 /\ maximumLength >= 0
    THEN IF minimumLength > 0 /\ maximumLength > 0 /\ maximumLength <= minimumLength
         THEN [this |-> this,
               ret |-> Throw("Maximum length can't be smaller than minimum")]
         ELSE [this |-> [this EXCEPT !.minimumLength = minimumLength,
                                     !.maximumLength = maximumLength],
               ret |-> ReturnInt(0)]
    ELSE [this |-> this, ret |-> Throw("Length must be positive number")]

\* SpecificConfig::SetLengthRange: the object and the outcome of the call.
SetLengthRangeResult(this, minimumLength, maximumLength) ==
    IF minimumLength >= 0 /\ maximumLength >= 0
    THEN IF minimumLength > 0 /\ maximumLength > 0 /\ maximumLength < minimumLength
         THEN [this |-> this,
               ret |-> Throw("Maximum length can't be smaller than minimum")]
         ELSE [this |-> [this EXCEPT !.minimumLength = minimumLength,
                                     !.maximumLength = maximumLength],
               ret |-> ReturnInt(0)]
    ELSE [this |-> this, ret |-> Throw("Length must be positive number")]

LengthInputs == (0 - 1)..MaxLen

SetLengthRange ==
    \E minimumLength \in LengthInputs, maximumLength \in LengthInputs :
        LET r == SetLengthRangeResult(cfg, minimumLength, maximumLength)
        IN  /\ call' = [op |-> "SetLengthRange",
                        info |-> <<Num(minimumLength), Num(maximumLength)>>]
            /\ cfg' = r.this
            /\ ret' = r.ret
            /\ UNCHANGED <<config, registry, trace, engineOut, everOk>>

\* One configuration object of any symbology, as constructed.
InitCfg ==
    /\ config = "nullptr"
    /\ registry = FreshRegistry
    /\ call = NoCall
    /\ ret = NoReturn
    /\ trace = << >>
    /\ engineOut = NoEngineOut
    /\ everOk = FALSE
    /\ cfg \in {ConfigOf(d) : d \in DecoderType}

NextCfg == SetLengthRange

SpecCfg == InitCfg /\ [][NextCfg]_vars


(***************************************************************************)
(* Properties.                                                             *)
(***************************************************************************)

\* The handlers that configure the registry or decode.
ConfigOps == {"setEnabledDecoders", "setDecodingSpeed", "setRegionOfInterest", "decodeImage"}

\* Some item of the cJSON object is the number n under key.
HasNumber(object, key, n) ==
    \E i \in 1..Len(object) :
        object[i].key = key /\ object[i].type = "Number" /\ object[i].num = n

\* Some item of the cJSON object is the string str under key.
HasString(object, key, str) ==
    \E i \in 1..Len(object) :
        object[i].key = key /\ object[i].type = "String" /\ object[i].str = str

\* No item of the cJSON object is an array.
NoArray(object) == \A i \in 1..Len(object) : object[i].type # "Array"

\* Every auxiliary pair of the result is a string item of the object.
HasExtra(object, result) ==
    \A j \in 1..Len(result.extra) :
        HasString(object, result.extra[j][1], result.extra[j][2])

\* The last call was decodeImage and the engine returned a result vector.
Decoded == call.op = "decodeImage" /\ engineOut.kind = "results"

\* C1: for every symbology config and every pair (min, max), SetLengthRange
\* succeeds (returns 0) iff min >= 0, max >= 0 and (min = 0 or max = 0 or
\* max >= min); on success the two bounds are stored, otherwise the call fails
\* with an invalid-argument exception and the stored bounds stay as they were.
C1_SetLengthRangeContract ==
    [][ call'.op = "SetLengthRange" =>
        LET min == call'.info[1].num
            max == call'.info[2].num
        IN  IF min >= 0 /\ max >= 0 /\ (min = 0 \/ max = 0 \/ max >= min)
            THEN /\ ret'.kind = "int" /\ ret'.int = 0
                 /\ cfg'.minimumLength = min
                 /\ cfg'.maximumLength = max
            ELSE /\ ret'.kind = "throw"
                 /\ cfg'.minimumLength = cfg.minimumLength
                 /\ cfg'.maximumLength = cfg.maximumLength ]_vars

\* C1 witness: an inverted range was refused and the exact-length bounds (2, 2)
\* stored by an earlier call are still in place.
C1_Witness ==
    /\ call = [op |-> "SetLengthRange", info |-> <<Num(3), Num(1)>>]
    /\ ret.kind = "throw"
    /\ cfg.minimumLength = 2
    /\ cfg.maximumLength = 2

\* C2: while no initialize call has succeeded, every configuration or decode
\* handler, whatever its arguments, returns the not-initialized error, leaves
\* the pointer and the registry as they were and calls nothing of the SDK.
C2_UninitializedRefused ==
    [][ (~everOk /\ call'.op \in ConfigOps) =>
        /\ ret' = ReturnString(NotInitializedText)
        /\ config' = config
        /\ registry' = registry
        /\ trace' = << >> ]_vars

\* C2 witness: decodeImage with a well-formed image was refused before any
\* successful initialize.
C2_Witness ==
    /\ ~everOk
    /\ call = [op |-> "decodeImage", info |-> <<Buf(1), Num(1), Num(1)>>]
    /\ ret.text = NotInitializedText

\* C3: when the engine returns no result, the document has exactly the three
\* fields resultsCount = 0, barcodeTypeName = "" and textualData = "".
C3_ZeroResults ==
    (Decoded /\ Len(engineOut.results) = 0) =>
        /\ ret.kind = "json"
        /\ Len(ret.doc) = 3
        /\ HasNumber(ret.doc, "resultsCount", 0)
        /\ HasString(ret.doc, "barcodeTypeName", "")
        /\ HasString(ret.doc, "textualData", "")

\* C3 witness: a decode call for which the engine found nothing.
C3_Witness == Decoded /\ engineOut.results = << >> /\ ret.kind = "json"

\* C4: when the engine returns exactly one result, the document is flat: it
\* has resultsCount = 1, the result's type name and text as barcodeTypeName and
\* textualData, every auxiliary pair of the result as a top-level string, and
\* no nested array.
C4_OneResult ==
    (Decoded /\ Len(engineOut.results) = 1) =>
        LET result == engineOut.results[1]
        IN  /\ ret.kind = "json"
            /\ HasNumber(ret.doc, "resultsCount", 1)
            /\ HasString(ret.doc, "barcodeTypeName", result.barcodeTypeName)
            /\ HasString(ret.doc, "textualData", result.textualData)
            /\ HasExtra(ret.doc, result)
            /\ NoArray(ret.doc)

\* C4 witness: one QR result with an auxiliary pair, found at the top level.
C4_Witness ==
    /\ Decoded
    /\ Len(engineOut.results) = 1
    /\ engineOut.results[1].extra = << <<"gs1", "01">> >>
    /\ HasString(ret.doc, "gs1", "01")

\* C5: when the engine returns N > 1 results, the document has resultsCount = N
\* and a results array of N objects, the i-th carrying the i-th result's type
\* name, text and auxiliary pairs, and nothing else at the top level.
C5_ManyResults ==
    (Decoded /\ Len(engineOut.results) > 1) =>
        LET results == engineOut.results
            N == Len(results)
        IN  /\ ret.kind = "json"
            /\ Len(ret.doc) = 2
            /\ HasNumber(ret.doc, "resultsCount", N)
            /\ \E k \in 1..2 :
                   /\ ret.doc[k].key = "results"
                   /\ ret.doc[k].type = "Array"
                   /\ Len(ret.doc[k].child) = N
                   /\ \A i \in 1..N :
                          /\ HasString(ret.doc[k].child[i], "barcodeTypeName",
                                       results[i].barcodeTypeName)
                          /\ HasString(ret.doc[k].child[i], "textualData",
                                       results[i].textualData)
                          /\ HasExtra(ret.doc[k].child[i], results[i])
                          /\ NoArray(ret.doc[k].child[i])

\* C5 witness: two different results, returned in the engine's order.
C5_Witness ==
    /\ Decoded
    /\ Len(engineOut.results) = 2
    /\ engineOut.results[1].barcodeTypeName = "QR"
    /\ engineOut.results[2].barcodeTypeName = "Code 128"
    /\ ret.kind = "json"
    /\ ret.doc[2].child[1] = RenderNested(engineOut.results[1])


\* The last call was decodeImage on an initialized registry, with a buffer and
\* two numbers.
DecodeCalled == everOk /\ call.op = "decodeImage" /\ ~DecodeArgsBad(call.info)

\* C6: on an initialized registry, for positive width and height, decodeImage
\* with a buffer shorter than width*height returns the buffer-too-small error
\* without calling the engine, and with a buffer of width*height bytes or more
\* it calls the engine.
C6_BufferSizeCheck ==
    (DecodeCalled /\ call.info[2].num > 0 /\ call.info[3].num > 0) =>
        IF ULess(Bytes(call.info[1].len, 8), IntMulExact(call.info[2].num, call.info[3].num))
        THEN ret.text = BufferTooSmallText /\ trace = << >>
        ELSE trace = <<"Barkoder::DecodeImageMemory">>

\* The same, for the positive dimensions whose product fits a 32-bit int: there
\* the size check decides as the product does.
C6_WithinIntRange ==
    (/\ DecodeCalled /\ call.info[2].num > 0 /\ call.info[3].num > 0
     /\ ~IntMulOverflows(call.info[2].num, call.info[3].num)) =>
        IF ULess(Bytes(call.info[1].len, 8), IntMulExact(call.info[2].num, call.info[3].num))
        THEN ret.text = BufferTooSmallText /\ trace = << >>
        ELSE trace = <<"Barkoder::DecodeImageMemory">>

\* The argument list is one array whose elements all are DecoderType codes.
ValidDecoderList(info) ==
    /\ Len(info) >= 1
    /\ IsArray(info[1])
    /\ \A i \in 1..Len(info[1].elems) :
           IsNumber(info[1].elems[i]) /\ info[1].elems[i].num \in DecoderType

\* The argument list is one array with an element that is no DecoderType code.
InvalidDecoderList(info) ==
    /\ Len(info) >= 1
    /\ IsArray(info[1])
    /\ \E i \in 1..Len(info[1].elems) :
           ~IsNumber(info[1].elems[i]) \/ info[1].elems[i].num \notin DecoderType

\* C7: on an initialized registry, after setEnabledDecoders(L) with L a list of
\* DecoderType codes, exactly the decoders of L are enabled, whatever was
\* enabled before; the same call made again leaves the registry unchanged.
C7_EnabledSetReplaced ==
    [][ (everOk /\ call'.op = "setEnabledDecoders" /\ ValidDecoderList(call'.info)) =>
        /\ registry'.enabled =
               {call'.info[1].elems[i].num : i \in 1..Len(call'.info[1].elems)}
        /\ (call = call' => registry' = registry) ]_vars

\* C7 witness: [Aztec, QR] was applied and exactly those two are enabled.
C7_Witness ==
    /\ everOk
    /\ call = [op |-> "setEnabledDecoders", info |-> <<Arr(<<Num(0), Num(2)>>)>>]
    /\ registry.enabled = {DecoderOrdinal("Aztec"), DecoderOrdinal("QR")}
    /\ HasPrefix(ret.text, "SUCCESS: ")

\* C8: on an initialized registry, setEnabledDecoders with a list holding an
\* element that is no DecoderType code (not a number, or out of range) returns
\* an error and leaves the enabled set as it was.
C8_UnknownDecoderRejected ==
    [][ (everOk /\ call'.op = "setEnabledDecoders" /\ InvalidDecoderList(call'.info)) =>
        /\ HasPrefix(ret'.text, "ERROR: ")
        /\ registry'.enabled = registry.enabled ]_vars

\* The step is an initialize call that returned an ERROR: status.
InitializeFailed == call'.op = "initialize" /\ HasPrefix(ret'.text, "ERROR: ")

\* The step is an initialize call that returned a SUCCESS: status.
InitializeSucceeded == call'.op = "initialize" /\ HasPrefix(ret'.text, "SUCCESS: ")

\* C9: after any initialize call that returns ERROR: there is no usable handle,
\* and this lasts until an initialize call succeeds: isInitialized is false and
\* every configuration or decode handler returns the not-initialized error.
C9_ErrorLeavesNoHandle ==
    [][ /\ InitializeFailed => ~IsInitializedValue(config')
        /\ (~IsInitializedValue(config) /\ ~InitializeSucceeded) => ~IsInitializedValue(config')
        /\ (~IsInitializedValue(config) /\ call'.op = "isInitialized") => ret'.bool = FALSE
        /\ (~IsInitializedValue(config) /\ call'.op \in ConfigOps) =>
               ret'.text = NotInitializedText ]_vars

\* C9, first-call case: the statement of C9 does hold for an initialize call
\* that returns ERROR: while no initialize call has succeeded before it (a
\* failed call after a successful one leaves the earlier handle in place).
C9_ErrorBeforeAnySuccess ==
    [][ /\ (~everOk /\ InitializeFailed) => (~everOk' /\ ~IsInitializedValue(config'))
        /\ (~everOk /\ ~InitializeSucceeded) => (~everOk' /\ ~IsInitializedValue(config'))
        /\ (~everOk /\ call'.op = "isInitialized") => ret'.bool = FALSE
        /\ (~everOk /\ call'.op \in ConfigOps) => ret'.text = NotInitializedText ]_vars

\* C9 witness: the first initialize call was refused by the license check and
\* no handle exists.
C9_Witness ==
    /\ ~everOk
    /\ call = [op |-> "initialize", info |-> <<Str("LICENSE-KEY")>>]
    /\ engineOut.kind = "response-error"
    /\ HasPrefix(ret.text, "ERROR: ")
    /\ ~IsInitializedValue(config)

\* The checksum fields of a record all are Disabled.
ChecksumsDisabled(c) ==
    /\ ("checksumType" \in DOMAIN c => c.checksumType = "Disabled")
    /\ ("masterChecksumType" \in DOMAIN c => c.masterChecksumType = "Disabled")

\* C10: as constructed, MsiConfig has checksumType Mod10 and CodabarConfig has
\* minimumLength 4; every config other than MSI has its checksum disabled and
\* every config other than Codabar has minimumLength 0; maximumLength is 0.
C10_Defaults ==
    call = NoCall =>
        /\ (cfg.decoderType = DecoderOrdinal("Msi") => cfg.checksumType = "Mod10")
        /\ (cfg.decoderType = DecoderOrdinal("Codabar") => cfg.minimumLength = 4)
        /\ (cfg.decoderType # DecoderOrdinal("Msi") => ChecksumsDisabled(cfg))
        /\ (cfg.decoderType # DecoderOrdinal("Codabar") => cfg.minimumLength = 0)
        /\ cfg.maximumLength = 0

\* C10, amended: as constructed, MsiConfig has checksumType Mod10 and
\* minimumLength 5, and CodabarConfig has minimumLength 4; every config other
\* than MSI has its checksum disabled, every config other than MSI and Codabar
\* has minimumLength 0, and every maximumLength is 0.
C10_DefaultsWithMsiLength ==
    call = NoCall =>
        /\ (cfg.decoderType = DecoderOrdinal("Msi") =>
                cfg.checksumType = "Mod10" /\ cfg.minimumLength = 5)
        /\ (cfg.decoderType = DecoderOrdinal("Codabar") => cfg.minimumLength = 4)
        /\ (cfg.decoderType # DecoderOrdinal("Msi") => ChecksumsDisabled(cfg))
        /\ (cfg.decoderType \notin {DecoderOrdinal("Msi"), DecoderOrdinal("Codabar")} =>
                cfg.minimumLength = 0)
        /\ cfg.maximumLength = 0

\* C10 witness: a freshly constructed MsiConfig.
C10_Witness ==
    /\ call = NoCall
    /\ cfg.configTypeName = "MSI"
    /\ cfg.checksumType = "Mod10"
    /\ cfg.minimumLength = 5

\* The last call was decodeImage and the engine threw.
DecodeFailed == call.op = "decodeImage" /\ engineOut.kind = "throw"

\* C11: when the engine fails during decodeImage, the call returns the string
\* "ERROR: " followed by the engine's message as it came, and no result
\* document of any shape: no results list and no zero-result document.
C11_EngineFailureSurfaced ==
    DecodeFailed =>
        /\ trace = <<"Barkoder::DecodeImageMemory">>
        /\ ret.kind = "string"
        /\ ret.text = "ERROR: " \o engineOut.message
        /\ ret.doc = << >>
        /\ ret.exception = ""

\* C11 witness: a decode call in which the engine threw.
C11_Witness ==
    /\ DecodeFailed
    /\ engineOut.message = "engine failure"
    /\ ret.text = "ERROR: engine failure"

\* The operations a JavaScript caller reaches that can fail.
CallerOps == ConfigOps \cup {"initialize"}

\* The last call returned a status string: "ERROR: ..." or "SUCCESS: ...".
ReturnedStatus ==
    ret.kind = "string" /\ (HasPrefix(ret.text, "ERROR: ") \/ HasPrefix(ret.text, "SUCCESS: "))

\* The last call of a caller-facing operation ended as C12 says: no exception
\* is raised to the caller; initialize and the setters return a status string,
\* decodeImage a status string or a document; a call the SDK refused or failed
\* returns "ERROR: ...", an initialize call the SDK accepted "SUCCESS: ...".
EndedWithStatus ==
    /\ ret.exception = ""
    /\ IF call.op = "decodeImage"
       THEN ret.kind = "json" \/ (ret.kind = "string" /\ HasPrefix(ret.text, "ERROR: "))
       ELSE ReturnedStatus
    /\ engineOut.kind \in {"throw", "response-error"} => HasPrefix(ret.text, "ERROR: ")
    /\ (call.op = "initialize" /\ engineOut.kind = "response") => HasPrefix(ret.text, "SUCCESS: ")

\* C12: every failing call of initialize, setEnabledDecoders, setDecodingSpeed,
\* setRegionOfInterest or decodeImage, also one with missing or wrongly typed
\* arguments, returns a string starting "ERROR:" and raises no exception to
\* the caller; every successful initialize or setter call returns a string
\* starting "SUCCESS:".
C12_StatusStrings == call.op \in CallerOps => EndedWithStatus

\* The same holds of every call but an initialize call without a string as its
\* first argument.
C12_ExceptInitializeArguments ==
    (call.op \in CallerOps /\ ~(call.op = "initialize" /\ InitializeArgsBad(call.info))) =>
        EndedWithStatus

\* C13: in every state after a successful initialize the registry's decoding
\* speed is one of Fast(0), Normal(1), Slow(2), Rigorous(3): setDecodingSpeed
\* with an integer outside 0..3 does not store it.
C13_SpeedEnumerated == everOk => registry.decodingSpeed \in DecodingSpeed

\* The speed stored is an enumerator as long as every setDecodingSpeed call
\* was handed one: initialize stores Normal and no other handler touches it.
C13_SpeedAsHandedIn ==
    [][ (everOk' /\ ~(call'.op = "setDecodingSpeed" /\ ~SpeedArgsBad(call'.info))) =>
            \/ registry'.decodingSpeed = registry.decodingSpeed
            \/ (call'.op = "initialize" /\ registry'.decodingSpeed = DecodingSpeedNormal) ]_vars

\* The number a decodeImage document gives as its resultsCount.
DocResultsCount(doc) ==
    (CHOOSE item \in Range(doc) : item.key = "resultsCount" /\ item.type = "Number").num

\* The results a decodeImage document carries: the elements of its results
\* array, or the one flat result, or none.
DocResults(doc) ==
    IF \E item \in Range(doc) : item.type = "Array"
    THEN Len((CHOOSE item \in Range(doc) : item.type = "Array").child)
    ELSE IF HasString(doc, "barcodeTypeName", "") THEN 0 ELSE 1

\* C14: the number of results in a document decodeImage returns, and the
\* resultsCount it states, never exceed the registry's maximumResultsCount in
\* force when the call was made.
C14_ResultsWithinCap ==
    (call.op = "decodeImage" /\ ret.kind = "json") =>
        /\ DocResultsCount(ret.doc) <= registry.maximumResultsCount
        /\ DocResults(ret.doc) <= registry.maximumResultsCount

\* C14 witness: a decode call that returned as many results as the cap allows.
C14_Witness ==
    /\ call.op = "decodeImage"
    /\ ret.kind = "json"
    /\ registry.maximumResultsCount = 1
    /\ Len(engineOut.results) = 1
    /\ DocResultsCount(ret.doc) = 1

\* C18: in every state reached through the exported functions after a
\* successful initialize, the registry's maximumResultsCount is 1; with an
\* engine that honours the cap, a document of decodeImage then has the
\* zero-result or the one-result shape, never a results array.
C18_CapIsOne ==
    everOk =>
        /\ registry.maximumResultsCount = 1
        /\ (call.op = "decodeImage" /\ ret.kind = "json") =>
               /\ NoArray(ret.doc)
               /\ ret.doc \in {RenderNone} \cup {RenderSingle(r) : r \in ResultPool}

\* C18 witness: setters and a decode call went by since initialize, and the
\* cap still is 1.
C18_Witness ==
    /\ everOk
    /\ registry.enabled # {}
    /\ registry.decodingSpeed # DecodingSpeedNormal
    /\ call.op = "decodeImage"
    /\ ret.kind = "json"
    /\ registry.maximumResultsCount = 1

\* C15: decodeImage with width <= 0 or height <= 0 returns an error string and
\* does not call the engine, whatever the length of the buffer.
C15_MalformedDimensions ==
    (DecodeCalled /\ (call.info[2].num <= 0 \/ call.info[3].num <= 0)) =>
        /\ trace = << >>
        /\ ret.kind = "string"
        /\ HasPrefix(ret.text, "ERROR: ")

\* The malformed dimensions the size check does stop: exactly one of width and
\* height negative and the other positive, where the cast of the negative
\* product gives a size no buffer reaches.
C15_OneNegativeDimension ==
    (/\ DecodeCalled
     /\ \/ (call.info[2].num < 0 /\ call.info[3].num > 0)
        \/ (call.info[2].num > 0 /\ call.info[3].num < 0)
     /\ ~IntMulOverflows(call.info[2].num, call.info[3].num)) =>
        trace = << >> /\ ret.text = BufferTooSmallText

\* The ordinal of the BarcodeType enumerator called name.
BarcodeOrdinal(name) ==
    (CHOOSE i \in 1..Len(BarcodeTypeNames) : BarcodeTypeNames[i] = name) - 1

\* C16: every DecoderType enumerator has a BarcodeType enumerator of its name;
\* the BarcodeType enumerators without a DecoderType are exactly IDMRZ,
\* IDPicture and IDSignature; the ordinal of a decoder and of its barcode type
\* agree up to IDDocument and differ after it.  Stated of the enumerations and
\* of the decoder type of the config object at hand.
C16_EnumerationsCorrespond ==
    /\ Range(DecoderTypeNames) \subseteq Range(BarcodeTypeNames)
    /\ Range(BarcodeTypeNames) \ Range(DecoderTypeNames) = {"IDMRZ", "IDPicture", "IDSignature"}
    /\ \A d \in DecoderType :
           (BarcodeOrdinal(DecoderTypeNames[d + 1]) = d) <=> (d <= DecoderOrdinal("IDDocument"))
    /\ LET name == DecoderTypeNames[cfg.decoderType + 1]
       IN  /\ name \in Range(BarcodeTypeNames)
           /\ IF cfg.decoderType <= DecoderOrdinal("IDDocument")
              THEN BarcodeTypeNames[cfg.decoderType + 1] = name
              ELSE BarcodeTypeNames[cfg.decoderType + 1] # name

\* C16 witness: the config of the first decoder after IDDocument, whose
\* ordinal is the BarcodeType ordinal of IDMRZ.
C16_Witness ==
    /\ cfg.decoderType = DecoderOrdinal("Databar14")
    /\ BarcodeTypeNames[cfg.decoderType + 1] = "IDMRZ"
    /\ BarcodeOrdinal("Databar14") = cfg.decoderType + 3

\* C17: once an initialize call has returned SUCCESS, the global handle stays
\* set through every later call, a failing or ill-typed initialize included,
\* and every isInitialized call returns true.
C17_InitializedForGood ==
    [][ everOk =>
            /\ IsInitializedValue(config)
            /\ IsInitializedValue(config')
            /\ call'.op = "isInitialized" => (ret'.kind = "boolean" /\ ret'.bool = TRUE) ]_vars

\* C17 witness: initialize had succeeded, a later initialize call was refused
\* by the license check, and the handle is still there.
C17_Witness ==
    /\ everOk
    /\ call.op = "initialize"
    /\ engineOut.kind \in {"response-error", "throw"}
    /\ HasPrefix(ret.text, "ERROR: ")
    /\ IsInitializedValue(config)

\* The buffer of the last decodeImage call is at least as long as the exact
\* product of its width and height (a product below zero asks for nothing).
BufferCoversProduct ==
    LET product == IntMulExact(call.info[2].num, call.info[3].num)
    IN  product[8] >= 128 \/ ~ULess(Bytes(call.info[1].len, 8), product)

\* C19: for all 32-bit width and height, decodeImage calls the engine only when
\* the buffer length is at least the mathematical product width x height, also
\* when width*height wraps around in 32-bit arithmetic and when both
\* dimensions are negative.
C19_ProductGuardsEngine ==
    (DecodeCalled /\ trace # << >>) => BufferCoversProduct

\* The same for the dimensions whose product fits a 32-bit int, of either
\* sign: without the overflow the size check is not defeated.
C19_WithoutOverflow ==
    (/\ DecodeCalled /\ trace # << >>
     /\ ~IntMulOverflows(call.info[2].num, call.info[3].num)) => BufferCoversProduct

\* The keys resultsCount, barcodeTypeName and textualData of the flat document.
FixedKeys == {"resultsCount", "barcodeTypeName", "textualData"}

\* No key occurs twice among the items of the cJSON object.
KeysUnique(object) ==
    \A i, j \in 1..Len(object) : object[i].key = object[j].key => i = j

\* Every item of the object under a fixed key holds what the result gives it:
\* the count 1, the type name, the text.
FixedKeysHold(object, result) ==
    \A i \in 1..Len(object) :
        /\ object[i].key = "resultsCount" => (object[i].type = "Number" /\ object[i].num = 1)
        /\ object[i].key = "barcodeTypeName" => object[i].str = result.barcodeTypeName
        /\ object[i].key = "textualData" => object[i].str = result.textualData

\* C20: in the one-result document every top-level key occurs once, and
\* resultsCount, barcodeTypeName and textualData hold 1, the result's type name
\* and the result's text, also when the result's auxiliary pairs have a key of
\* one of these names.
C20_FixedKeysUnshadowed ==
    (Decoded /\ Len(engineOut.results) = 1) =>
        /\ KeysUnique(ret.doc)
        /\ FixedKeysHold(ret.doc, engineOut.results[1])

\* The same for a result whose auxiliary keys are none of the three names.
C20_DistinctAuxiliaryKeys ==
    (/\ Decoded /\ Len(engineOut.results) = 1
     /\ \A j \in 1..Len(engineOut.results[1].extra) :
            engineOut.results[1].extra[j][1] \notin FixedKeys) =>
        /\ KeysUnique(ret.doc)
        /\ FixedKeysHold(ret.doc, engineOut.results[1])

=============================================================================
